---- MODULE Spec2Model ----
(***************************************************************************)
(* Model of package wkbcommon (encoding/wkbcommon/wkbcommon.go): the       *)
(* length-prefixed flat-coordinate codec, its byte orders and the          *)
(* process-wide table MaxGeometryElements.                                 *)
(*                                                                         *)
(* Representation.                                                         *)
(*   byte      an integer 0..255                                           *)
(*   uint32    a record [hi, lo] of two 16-bit halves (value hi*2^16+lo),  *)
(*             so that the whole unsigned range 0..2^32-1 is covered       *)
(*   float64   its IEEE-754 bit pattern (math.Float64bits) as 8 bytes,     *)
(*             most significant first                                      *)
(*   slice     a record [isnil, data]: Go tells a nil slice from an empty  *)
(*             one                                                         *)
(*   error     a record [kind, Level, N, Limit]                            *)
(*   stream    the bytes of a bytes.Buffer used as io.Reader / io.Writer   *)
(***************************************************************************)
EXTENDS Integers, Sequences, FiniteSets, TLC

(* ------------------------------ bounds --------------------------------- *)

\* Largest number of coordinates a caller passes to one write.
MaxCoords == 2
\* Largest number of sub-arrays (entries of ends) a caller passes to WriteFlatCoords2.
MaxEnds == 2
\* Largest number of trailing bytes a transport loses from a stream.
MaxCut == 4
\* The tightened limit a collaborator may install in place of a default.
TightLimit == 1

\* Strides the callers use (XY, XYZ, XYZM and the degenerate 1).
Strides == {1, 2, 3, 4}

(* --------------------------- byte orders ------------------------------- *)

NDRID == 1
\* Variant: the two order bytes confused.
XDRID_Swapped == NDRID

XDRID == 0

XDR == "BigEndian"
NDR == "LittleEndian"

ByteOrders == {XDR, NDR}

(* ------------------------------ uint32 --------------------------------- *)

U32(hi, lo) == [hi |-> hi, lo |-> lo]

\* uint32(k) for a non-negative int k below 2^31.
FromInt(k) == U32((k \div 65536) % 65536, k % 65536)

\* int(n); the model only converts counts that passed a limit check.
ToInt(n) == n.hi * 65536 + n.lo

\* a > b on uint32 (unsigned).
Gt32(a, b) == a.hi > b.hi \/ (a.hi = b.hi /\ a.lo > b.lo)

Reverse(s) == [i \in 1..Len(s) |-> s[Len(s) + 1 - i]]

\* byteOrder.PutUint32
PutUint32(byteOrder, v) ==
  LET be == << v.hi \div 256, v.hi % 256, v.lo \div 256, v.lo % 256 >>
  IN  IF byteOrder = XDR THEN be ELSE Reverse(be)

\* byteOrder.Uint32
Uint32(byteOrder, b) ==
  LET m == IF byteOrder = XDR THEN b ELSE Reverse(b)
  IN  U32(m[1] * 256 + m[2], m[3] * 256 + m[4])

(* ------------------------------ float64 -------------------------------- *)

\* 1.0, 0.1 and a NaN with a payload, as bit patterns.
Scalars ==
  << <<63, 240, 0, 0, 0, 0, 0, 0>>,
     <<63, 185, 153, 153, 153, 153, 153, 154>>,
     <<127, 248, 0, 0, 0, 0, 0, 1>> >>

\* byteOrder.PutUint64(bs, math.Float64bits(x))
PutFloat64(byteOrder, x) == IF byteOrder = XDR THEN x ELSE Reverse(x)

\* math.Float64frombits(byteOrder.Uint64(bs))
Float64(byteOrder, bs) == IF byteOrder = XDR THEN bs ELSE Reverse(bs)

\* binary.Write(w, byteOrder, coords) for a []float64: 8 bytes per element.
EncodeFloats(byteOrder, coords) ==
  [i \in 1..(8 * Len(coords)) |->
     PutFloat64(byteOrder, coords[((i - 1) \div 8) + 1])[((i - 1) % 8) + 1]]

\* The decoding half of binary.Read into a []float64 of len(bs)/8 elements.
DecodeFloats(byteOrder, bs) ==
  [j \in 1..(Len(bs) \div 8) |-> Float64(byteOrder, SubSeq(bs, 8 * (j - 1) + 1, 8 * j))]

(* --------------------------- slices, errors ---------------------------- *)

NilSlice == [isnil |-> TRUE, data |-> <<>>]

\* make([]T, n) filled, or any non-nil slice.
Slice(d) == [isnil |-> FALSE, data |-> d]

\* append(s, t...): appending nothing returns s itself (nil stays nil).
AppendSlice(s, t) == IF t.data = <<>> THEN s ELSE Slice(s.data \o t.data)

Zero32 == U32(0, 0)

NoErr == [kind |-> "nil", Level |-> 0, N |-> Zero32, Limit |-> Zero32]
ErrEOF == [kind |-> "EOF", Level |-> 0, N |-> Zero32, Limit |-> Zero32]
ErrUnexpectedEOF == [kind |-> "ErrUnexpectedEOF", Level |-> 0, N |-> Zero32, Limit |-> Zero32]

ErrGeometryTooLarge(level, n, limit) ==
  [kind |-> "ErrGeometryTooLarge", Level |-> level, N |-> n, Limit |-> limit]

ErrUnknownByteOrder(b) ==
  [kind |-> "ErrUnknownByteOrder", Level |-> 0, N |-> FromInt(b), Limit |-> Zero32]

(* ----------------------- byte-order resolution ----------------------- *)

\* The collaborator's switch on the order byte of a header.
ResolveByteOrder(id) ==
  IF id = XDRID THEN [id |-> id, byteOrder |-> XDR, err |-> NoErr]
  ELSE IF id = NDRID THEN [id |-> id, byteOrder |-> NDR, err |-> NoErr]
  ELSE [id |-> id, byteOrder |-> "none", err |-> ErrUnknownByteOrder(id)]

(* ------------------------------ policy --------------------------------- *)

\* var MaxGeometryElements = [4]uint32{0, 1 << 20, 1 << 15, 1 << 10}; level l is entry l+1.
DefaultMaxGeometryElements == << U32(0, 0), U32(16, 0), U32(0, 32768), U32(0, 1024) >>

Limit(table, level) == table[level + 1]

(* ------------------------------ reading -------------------------------- *)

\* io.ReadFull(r, make([]byte, size)) on a buffer holding r.
ReadFull(r, size) ==
  IF size = 0 THEN [bs |-> <<>>, err |-> NoErr, rest |-> r]
  ELSE IF Len(r) >= size
       THEN [bs |-> SubSeq(r, 1, size), err |-> NoErr, rest |-> SubSeq(r, size + 1, Len(r))]
       ELSE IF Len(r) = 0
            THEN [bs |-> <<>>, err |-> ErrEOF, rest |-> <<>>]
            ELSE [bs |-> r, err |-> ErrUnexpectedEOF, rest |-> <<>>]

ReadFlatCoords0(r, byteOrder, stride) ==
  LET got == ReadFull(r, 8 * stride)
  IN  IF got.err # NoErr
      THEN [flatCoords |-> NilSlice, err |-> got.err, rest |-> got.rest]
      ELSE [flatCoords |-> Slice(DecodeFloats(byteOrder, got.bs)), err |-> NoErr,
            rest |-> got.rest]

\* Variant: the bound check written n >= limit.
ReadFlatCoords1_Ge(r, byteOrder, stride, table) ==
  LET cnt == ReadFull(r, 4)
  IN  IF cnt.err # NoErr
      THEN [flatCoords |-> NilSlice, err |-> cnt.err, rest |-> cnt.rest]
      ELSE LET n == Uint32(byteOrder, cnt.bs)
           IN  IF Gt32(n, Limit(table, 1)) \/ n = Limit(table, 1)
               THEN [flatCoords |-> NilSlice,
                     err |-> ErrGeometryTooLarge(1, n, Limit(table, 1)),
                     rest |-> cnt.rest]
               ELSE LET got == ReadFull(cnt.rest, 8 * (ToInt(n) * stride))
                    IN  IF got.err # NoErr
                        THEN [flatCoords |-> NilSlice, err |-> got.err, rest |-> got.rest]
                        ELSE [flatCoords |-> Slice(DecodeFloats(byteOrder, got.bs)),
                              err |-> NoErr, rest |-> got.rest]

\* Variant: make([]float64, int(n)) in place of int(n)*stride.
ReadFlatCoords1_NoStride(r, byteOrder, stride, table) ==
  LET cnt == ReadFull(r, 4)
  IN  IF cnt.err # NoErr
      THEN [flatCoords |-> NilSlice, err |-> cnt.err, rest |-> cnt.rest]
      ELSE LET n == Uint32(byteOrder, cnt.bs)
           IN  IF Gt32(n, Limit(table, 1))
               THEN [flatCoords |-> NilSlice,
                     err |-> ErrGeometryTooLarge(1, n, Limit(table, 1)),
                     rest |-> cnt.rest]
               ELSE LET got == ReadFull(cnt.rest, 8 * ToInt(n))
                    IN  IF got.err # NoErr
                        THEN [flatCoords |-> NilSlice, err |-> got.err, rest |-> got.rest]
                        ELSE [flatCoords |-> Slice(DecodeFloats(byteOrder, got.bs)),
                              err |-> NoErr, rest |-> got.rest]

ReadFlatCoords1(r, byteOrder, stride, table) ==
  LET cnt == ReadFull(r, 4)
  IN  IF cnt.err # NoErr
      THEN [flatCoords |-> NilSlice, err |-> cnt.err, rest |-> cnt.rest]
      ELSE LET n == Uint32(byteOrder, cnt.bs)
           IN  IF Gt32(n, Limit(table, 1))
               THEN [flatCoords |-> NilSlice,
                     err |-> ErrGeometryTooLarge(1, n, Limit(table, 1)),
                     rest |-> cnt.rest]
               ELSE LET got == ReadFull(cnt.rest, 8 * (ToInt(n) * stride))
                    IN  IF got.err # NoErr
                        THEN [flatCoords |-> NilSlice, err |-> got.err, rest |-> got.rest]
                        ELSE [flatCoords |-> Slice(DecodeFloats(byteOrder, got.bs)),
                              err |-> NoErr, rest |-> got.rest]

RECURSIVE ReadFlatCoords2Loop_LocalEnds(_, _, _, _, _, _, _, _)
\* Variant: ends = append(ends, len(flatCoords)), the length of the inner sequence alone.
ReadFlatCoords2Loop_LocalEnds(i, n, r, byteOrder, stride, table, flatCoordss, ends) ==
  IF i >= n
  THEN [flatCoords |-> flatCoordss, ends |-> ends, err |-> NoErr, rest |-> r]
  ELSE LET one == ReadFlatCoords1(r, byteOrder, stride, table)
       IN  IF one.err # NoErr
           THEN [flatCoords |-> NilSlice, ends |-> NilSlice, err |-> one.err,
                 rest |-> one.rest]
           ELSE ReadFlatCoords2Loop_LocalEnds(i + 1, n, one.rest, byteOrder, stride, table,
                  AppendSlice(flatCoordss, one.flatCoords),
                  Slice(Append(ends.data, Len(one.flatCoords.data))))

RECURSIVE ReadFlatCoords2Loop_Partial(_, _, _, _, _, _, _, _)
\* Variant: return flatCoordss, ends, err from inside the loop.
ReadFlatCoords2Loop_Partial(i, n, r, byteOrder, stride, table, flatCoordss, ends) ==
  IF i >= n
  THEN [flatCoords |-> flatCoordss, ends |-> ends, err |-> NoErr, rest |-> r]
  ELSE LET one == ReadFlatCoords1(r, byteOrder, stride, table)
       IN  IF one.err # NoErr
           THEN [flatCoords |-> flatCoordss, ends |-> ends, err |-> one.err,
                 rest |-> one.rest]
           ELSE LET grown == AppendSlice(flatCoordss, one.flatCoords)
                IN  ReadFlatCoords2Loop_Partial(i + 1, n, one.rest, byteOrder, stride, table,
                      grown, Slice(Append(ends.data, Len(grown.data))))

RECURSIVE ReadFlatCoords2Loop(_, _, _, _, _, _, _, _)
\* The for loop of ReadFlatCoords2, from iteration i.
ReadFlatCoords2Loop(i, n, r, byteOrder, stride, table, flatCoordss, ends) ==
  IF i >= n
  THEN [flatCoords |-> flatCoordss, ends |-> ends, err |-> NoErr, rest |-> r]
  ELSE LET one == ReadFlatCoords1(r, byteOrder, stride, table)
       IN  IF one.err # NoErr
           THEN [flatCoords |-> NilSlice, ends |-> NilSlice, err |-> one.err,
                 rest |-> one.rest]
           ELSE LET grown == AppendSlice(flatCoordss, one.flatCoords)
                IN  ReadFlatCoords2Loop(i + 1, n, one.rest, byteOrder, stride, table,
                                        grown, Slice(Append(ends.data, Len(grown.data))))

\* Variant: the outer count checked against entry 1 of the table.
ReadFlatCoords2_WrongLevel(r, byteOrder, stride, table) ==
  LET cnt == ReadFull(r, 4)
  IN  IF cnt.err # NoErr
      THEN [flatCoords |-> NilSlice, ends |-> NilSlice, err |-> cnt.err, rest |-> cnt.rest]
      ELSE LET n == Uint32(byteOrder, cnt.bs)
           IN  IF Gt32(n, Limit(table, 1))
               THEN [flatCoords |-> NilSlice, ends |-> NilSlice,
                     err |-> ErrGeometryTooLarge(2, n, Limit(table, 1)),
                     rest |-> cnt.rest]
               ELSE ReadFlatCoords2Loop(0, ToInt(n), cnt.rest, byteOrder, stride, table,
                                        NilSlice, NilSlice)

ReadFlatCoords2(r, byteOrder, stride, table) ==
  LET cnt == ReadFull(r, 4)
  IN  IF cnt.err # NoErr
      THEN [flatCoords |-> NilSlice, ends |-> NilSlice, err |-> cnt.err, rest |-> cnt.rest]
      ELSE LET n == Uint32(byteOrder, cnt.bs)
           IN  IF Gt32(n, Limit(table, 2))
               THEN [flatCoords |-> NilSlice, ends |-> NilSlice,
                     err |-> ErrGeometryTooLarge(2, n, Limit(table, 2)),
                     rest |-> cnt.rest]
               ELSE ReadFlatCoords2Loop(0, ToInt(n), cnt.rest, byteOrder, stride, table,
                                        NilSlice, NilSlice)

(* ------------------------------ writing -------------------------------- *)

\* Each returns the bytes of w after the call; a bytes.Buffer never fails a write.
WriteFlatCoords0(w, byteOrder, coord) == w \o EncodeFloats(byteOrder, coord)

\* Variant: uint32(len(coords)) written as the count.
WriteFlatCoords1_NoStride(w, byteOrder, coords, stride) ==
  (w \o PutUint32(byteOrder, FromInt(Len(coords))))
    \o EncodeFloats(byteOrder, coords)

WriteFlatCoords1(w, byteOrder, coords, stride) ==
  (w \o PutUint32(byteOrder, FromInt(Len(coords) \div stride)))
    \o EncodeFloats(byteOrder, coords)

RECURSIVE WriteFlatCoords2Loop_NoAdvance(_, _, _, _, _, _, _)
\* Variant: offset = end left out.
WriteFlatCoords2Loop_NoAdvance(k, offset, w, byteOrder, flatCoords, ends, stride) ==
  IF k > Len(ends) THEN w
  ELSE WriteFlatCoords2Loop_NoAdvance(k + 1, offset,
         WriteFlatCoords1(w, byteOrder, SubSeq(flatCoords, offset + 1, ends[k]), stride),
         byteOrder, flatCoords, ends, stride)

RECURSIVE WriteFlatCoords2Loop(_, _, _, _, _, _, _)
\* The range loop of WriteFlatCoords2, from entry k of ends.
WriteFlatCoords2Loop(k, offset, w, byteOrder, flatCoords, ends, stride) ==
  IF k > Len(ends) THEN w
  ELSE WriteFlatCoords2Loop(k + 1, ends[k],
         WriteFlatCoords1(w, byteOrder, SubSeq(flatCoords, offset + 1, ends[k]), stride),
         byteOrder, flatCoords, ends, stride)

WriteFlatCoords2(w, byteOrder, flatCoords, ends, stride) ==
  WriteFlatCoords2Loop(1, 0, w \o PutUint32(byteOrder, FromInt(Len(ends))),
                       byteOrder, flatCoords, ends, stride)

(* ------------------------------- state --------------------------------- *)

VARIABLES
  MaxGeometryElements,  \* the process-wide table of limits
  stream,               \* the unread bytes of the buffer the codec is called on
  produced,             \* how the bytes of the buffer came to be there
  resolved,             \* the byte order the collaborator resolved for this decode
  last,                 \* the latest read: its arguments, what it saw and what it returned
  pc,                   \* where a read running beside other goroutines stands
  frame                 \* the locals of that read

vars == << MaxGeometryElements, stream, produced, resolved, last, pc, frame >>

NoProducer ==
  [op |-> "none", byteOrder |-> XDR, stride |-> 1, coords |-> <<>>, ends |-> <<>>,
   count |-> Zero32, cut |-> 0]

Unresolved == [id |-> -1, byteOrder |-> "none", err |-> NoErr]

NoCall ==
  [op |-> "none", byteOrder |-> XDR, stride |-> 1, input |-> <<>>, table |-> <<>>,
   offset |-> 0, flatCoords |-> NilSlice, ends |-> NilSlice, err |-> NoErr]

NoFrame ==
  [op |-> "none", stride |-> 1, input |-> <<>>, table |-> <<>>, n |-> Zero32,
   outer |-> Zero32, i |-> 0, flatCoordss |-> NilSlice, ends |-> NilSlice]

\* Coordinate values a caller writes: len scalars, neighbours distinct.
CoordPatterns(len) == { [i \in 1..len |-> Scalars[((i + k) % 3) + 1]] : k \in 0..1 }

FlatCoordsInputs(stride) == UNION { CoordPatterns(c * stride) : c \in 0..MaxCoords }

\* The partitions of len scalars into at most MaxEnds runs of whole coordinates.
EndsInputs(len, stride) ==
  { e \in UNION { [1..k -> { j * stride : j \in 0..(len \div stride) }] : k \in 0..MaxEnds } :
      /\ \A i \in 1..(Len(e) - 1) : e[i] <= e[i + 1]
      /\ IF Len(e) = 0 THEN len = 0 ELSE e[Len(e)] = len }

\* Count prefixes a hostile or corrupt input carries: 1, 2, 2^20, 2^20+1, 2^15+1, 2^31, 2^32-1.
CraftedCounts ==
  { U32(0, 1), U32(0, 2), U32(16, 0), U32(16, 1), U32(0, 32769), U32(32768, 0),
    U32(65535, 65535) }

\* Order bytes a header carries.
OrderIDs == {0, 1, 2, 99, 255}

\* Tables a collaborator installs: each of levels 1 and 2 at its default or tightened.
PolicyTables ==
  { << DefaultMaxGeometryElements[1], l1, l2, DefaultMaxGeometryElements[4] >> :
      l1 \in { FromInt(TightLimit), DefaultMaxGeometryElements[2] },
      l2 \in { FromInt(TightLimit), DefaultMaxGeometryElements[3] } }

Init ==
  /\ MaxGeometryElements = DefaultMaxGeometryElements
  /\ stream = <<>>
  /\ produced = NoProducer
  /\ resolved = Unresolved
  /\ last = NoCall
  /\ pc = "idle"
  /\ frame = NoFrame

(* ------------------- the callers and the byte source ------------------- *)

Fresh == produced.op = "none" /\ last.op = "none" /\ pc = "idle"

\* A collaborator assigns the exported variable, before any decode.
SetMaxGeometryElements(table) ==
  /\ Fresh
  /\ table # MaxGeometryElements
  /\ MaxGeometryElements' = table
  /\ UNCHANGED << stream, produced, resolved, last, pc, frame >>

\* The caller takes a fresh, empty buffer for the next geometry.
NewBuffer ==
  /\ pc = "idle"
  /\ produced.op # "none" \/ last.op # "none" \/ resolved # Unresolved
  /\ stream' = <<>>
  /\ produced' = NoProducer
  /\ resolved' = Unresolved
  /\ last' = NoCall
  /\ UNCHANGED << MaxGeometryElements, pc, frame >>

CallWriteFlatCoords0(byteOrder, coord) ==
  /\ Fresh
  /\ stream' = WriteFlatCoords0(stream, byteOrder, coord)
  /\ produced' = [NoProducer EXCEPT !.op = "WriteFlatCoords0", !.byteOrder = byteOrder,
                                    !.stride = Len(coord), !.coords = coord]
  /\ UNCHANGED << MaxGeometryElements, resolved, last, pc, frame >>

CallWriteFlatCoords1(byteOrder, coords, stride) ==
  /\ Fresh
  /\ stream' = WriteFlatCoords1(stream, byteOrder, coords, stride)
  /\ produced' = [NoProducer EXCEPT !.op = "WriteFlatCoords1", !.byteOrder = byteOrder,
                                    !.stride = stride, !.coords = coords]
  /\ UNCHANGED << MaxGeometryElements, resolved, last, pc, frame >>

CallWriteFlatCoords2(byteOrder, flatCoords, ends, stride) ==
  /\ Fresh
  /\ stream' = WriteFlatCoords2(stream, byteOrder, flatCoords, ends, stride)
  /\ produced' = [NoProducer EXCEPT !.op = "WriteFlatCoords2", !.byteOrder = byteOrder,
                                    !.stride = stride, !.coords = flatCoords, !.ends = ends]
  /\ UNCHANGED << MaxGeometryElements, resolved, last, pc, frame >>

\* An untrusted source supplies a bare 4-byte count prefix.
Craft(byteOrder, count) ==
  /\ Fresh
  /\ stream' = stream \o PutUint32(byteOrder, count)
  /\ produced' = [NoProducer EXCEPT !.op = "Craft", !.byteOrder = byteOrder, !.count = count]
  /\ UNCHANGED << MaxGeometryElements, resolved, last, pc, frame >>

\* The transport loses the last k bytes of what was written.
Truncate(k) ==
  /\ produced.op \in {"WriteFlatCoords0", "WriteFlatCoords1", "WriteFlatCoords2"}
  /\ produced.cut = 0
  /\ last.op = "none" /\ pc = "idle"
  /\ Len(stream) >= k
  /\ stream' = SubSeq(stream, 1, Len(stream) - k)
  /\ produced' = [produced EXCEPT !.cut = k]
  /\ UNCHANGED << MaxGeometryElements, resolved, last, pc, frame >>

\* The collaborator reads the order byte of the header and resolves it.
CallResolveByteOrder(id) ==
  /\ last.op = "none" /\ pc = "idle"
  /\ resolved = Unresolved
  /\ resolved' = ResolveByteOrder(id)
  /\ UNCHANGED << MaxGeometryElements, stream, produced, last, pc, frame >>

(* ------------------------------- reads --------------------------------- *)

\* A decode uses the byte order it resolved and aborts at its first error; the reads that
\* follow a first one on the same buffer are the further elements of one collection: the
\* same function with the same stride.
MayRead(op, stride) ==
  /\ pc = "idle"
  /\ resolved.byteOrder \in ByteOrders
  /\ \/ last.op = "none"
     \/ last.err = NoErr /\ last.op = op /\ last.stride = stride /\ stream # <<>>

Called(op, stride, input, table, res, ends) ==
  [op |-> op, byteOrder |-> resolved.byteOrder, stride |-> stride, input |-> input,
   table |-> table,
   offset |-> IF last.op = "none" THEN 0 ELSE last.offset + (Len(last.input) - Len(input)),
   flatCoords |-> res.flatCoords, ends |-> ends, err |-> res.err]

CallReadFlatCoords0(stride) ==
  LET res == ReadFlatCoords0(stream, resolved.byteOrder, stride)
  IN  /\ MayRead("ReadFlatCoords0", stride)
      /\ stream' = res.rest
      /\ last' = Called("ReadFlatCoords0", stride, stream, MaxGeometryElements, res, NilSlice)
      /\ UNCHANGED << MaxGeometryElements, produced, resolved, pc, frame >>

\* Variant: the read puts the default table back before it checks.
CallReadFlatCoords1_Reset(stride) ==
  LET res == ReadFlatCoords1(stream, resolved.byteOrder, stride, DefaultMaxGeometryElements)
  IN  /\ MayRead("ReadFlatCoords1", stride)
      /\ stream' = res.rest
      /\ last' = Called("ReadFlatCoords1", stride, stream, DefaultMaxGeometryElements, res,
                        NilSlice)
      /\ MaxGeometryElements' = DefaultMaxGeometryElements
      /\ UNCHANGED << produced, resolved, pc, frame >>

CallReadFlatCoords1(stride) ==
  LET res == ReadFlatCoords1(stream, resolved.byteOrder, stride, MaxGeometryElements)
  IN  /\ MayRead("ReadFlatCoords1", stride)
      /\ stream' = res.rest
      /\ last' = Called("ReadFlatCoords1", stride, stream, MaxGeometryElements, res, NilSlice)
      /\ UNCHANGED << MaxGeometryElements, produced, resolved, pc, frame >>

CallReadFlatCoords2(stride) ==
  LET res == ReadFlatCoords2(stream, resolved.byteOrder, stride, MaxGeometryElements)
  IN  /\ MayRead("ReadFlatCoords2", stride)
      /\ stream' = res.rest
      /\ last' = Called("ReadFlatCoords2", stride, stream, MaxGeometryElements, res, res.ends)
      /\ UNCHANGED << MaxGeometryElements, produced, resolved, pc, frame >>

Environment ==
  \/ NewBuffer
  \/ \E o \in ByteOrders, s \in Strides : \E c \in CoordPatterns(s) :
       CallWriteFlatCoords0(o, c)
  \/ \E o \in ByteOrders, s \in Strides : \E c \in FlatCoordsInputs(s) :
       CallWriteFlatCoords1(o, c, s)
  \/ \E o \in ByteOrders, s \in Strides : \E c \in FlatCoordsInputs(s) :
       \E e \in EndsInputs(Len(c), s) : CallWriteFlatCoords2(o, c, e, s)
  \/ \E o \in ByteOrders, n \in CraftedCounts : Craft(o, n)
  \/ \E k \in 1..MaxCut : Truncate(k)
  \/ \E id \in OrderIDs : CallResolveByteOrder(id)

Next ==
  \/ Environment
  \/ \E table \in PolicyTables : SetMaxGeometryElements(table)
  \/ \E s \in Strides : CallReadFlatCoords0(s)
  \/ \E s \in Strides : CallReadFlatCoords1(s)
  \/ \E s \in Strides : CallReadFlatCoords2(s)

Spec == Init /\ [][Next]_vars

(* ------------- reads running beside a writer of the table -------------- *)

(* The same two functions, one step per access to the stream or to the     *)
(* shared table, so that an assignment to MaxGeometryElements by another   *)
(* goroutine can fall between any two of them.  The comparison of line 116 *)
(* (132) and the composite literal of line 117 (133) each load the table.  *)

\* Another goroutine assigns the exported variable at any moment.
OverwriteMaxGeometryElements(table) ==
  /\ table # MaxGeometryElements
  /\ MaxGeometryElements' = table
  /\ UNCHANGED << stream, produced, resolved, last, pc, frame >>

\* The return of the running call.
Finish(flatCoords, ends, err) ==
  /\ last' = Called(frame.op, frame.stride, frame.input, frame.table,
                    [flatCoords |-> flatCoords, err |-> err], ends)
  /\ pc' = "idle"
  /\ frame' = NoFrame

Begin(op, stride) ==
  /\ MayRead(op, stride)
  /\ frame' = [NoFrame EXCEPT !.op = op, !.stride = stride, !.input = stream,
                              !.table = MaxGeometryElements]
  /\ pc' = IF op = "ReadFlatCoords2" THEN "L129" ELSE "L113"
  /\ UNCHANGED << MaxGeometryElements, stream, produced, resolved, last >>

\* ReadFlatCoords2, line 129: binary.Read of the outer count.
StepL129 ==
  /\ pc = "L129"
  /\ LET cnt == ReadFull(stream, 4)
     IN  /\ stream' = cnt.rest
         /\ IF cnt.err # NoErr
            THEN Finish(NilSlice, NilSlice, cnt.err)
            ELSE /\ frame' = [frame EXCEPT !.outer = Uint32(resolved.byteOrder, cnt.bs)]
                 /\ pc' = "L132"
                 /\ UNCHANGED last
  /\ UNCHANGED << MaxGeometryElements, produced, resolved >>

\* Line 132: the comparison loads MaxGeometryElements[2].
StepL132 ==
  /\ pc = "L132"
  /\ pc' = IF Gt32(frame.outer, Limit(MaxGeometryElements, 2)) THEN "L133" ELSE "L137"
  /\ UNCHANGED << MaxGeometryElements, stream, produced, resolved, last, frame >>

\* Line 133: the error value loads MaxGeometryElements[2] again.
StepL133 ==
  /\ pc = "L133"
  /\ Finish(NilSlice, NilSlice,
            ErrGeometryTooLarge(2, frame.outer, Limit(MaxGeometryElements, 2)))
  /\ UNCHANGED << MaxGeometryElements, stream, produced, resolved >>

\* Line 137: the loop test; line 145 when it fails.
StepL137 ==
  /\ pc = "L137"
  /\ IF frame.i < ToInt(frame.outer)
     THEN pc' = "L113" /\ UNCHANGED << last, frame >>
     ELSE Finish(frame.flatCoordss, frame.ends, NoErr)
  /\ UNCHANGED << MaxGeometryElements, stream, produced, resolved >>

\* ReadFlatCoords1, line 113: binary.Read of the count.
StepL113 ==
  /\ pc = "L113"
  /\ LET cnt == ReadFull(stream, 4)
     IN  /\ stream' = cnt.rest
         /\ IF cnt.err # NoErr
            THEN Finish(NilSlice, NilSlice, cnt.err)
            ELSE /\ frame' = [frame EXCEPT !.n = Uint32(resolved.byteOrder, cnt.bs)]
                 /\ pc' = "L116"
                 /\ UNCHANGED last
  /\ UNCHANGED << MaxGeometryElements, produced, resolved >>

\* Line 116: the comparison loads MaxGeometryElements[1].
StepL116 ==
  /\ pc = "L116"
  /\ pc' = IF Gt32(frame.n, Limit(MaxGeometryElements, 1)) THEN "L117" ELSE "L119"
  /\ UNCHANGED << MaxGeometryElements, stream, produced, resolved, last, frame >>

\* Line 117: the error value loads MaxGeometryElements[1] again.
StepL117 ==
  /\ pc = "L117"
  /\ Finish(NilSlice, NilSlice,
            ErrGeometryTooLarge(1, frame.n, Limit(MaxGeometryElements, 1)))
  /\ UNCHANGED << MaxGeometryElements, stream, produced, resolved >>

\* Lines 119-123: allocate, read the payload, return; lines 139-143 in the caller.
StepL119 ==
  /\ pc = "L119"
  /\ LET got == ReadFull(stream, 8 * (ToInt(frame.n) * frame.stride))
         flatCoords == Slice(DecodeFloats(resolved.byteOrder, got.bs))
         grown == AppendSlice(frame.flatCoordss, flatCoords)
     IN  /\ stream' = got.rest
         /\ IF got.err # NoErr
            THEN Finish(NilSlice, NilSlice, got.err)
            ELSE IF frame.op = "ReadFlatCoords1"
                 THEN Finish(flatCoords, NilSlice, NoErr)
                 ELSE /\ frame' = [frame EXCEPT !.flatCoordss = grown,
                                     !.ends = Slice(Append(frame.ends.data, Len(grown.data))),
                                     !.i = frame.i + 1]
                      /\ pc' = "L137"
                      /\ UNCHANGED last
  /\ UNCHANGED << MaxGeometryElements, produced, resolved >>

RaceEnvironment ==
  \/ NewBuffer
  \/ \E o \in ByteOrders, s \in Strides : \E c \in FlatCoordsInputs(s) :
       CallWriteFlatCoords1(o, c, s)
  \/ \E o \in ByteOrders, s \in Strides : \E c \in FlatCoordsInputs(s) :
       \E e \in EndsInputs(Len(c), s) : CallWriteFlatCoords2(o, c, e, s)
  \/ \E o \in ByteOrders, n \in CraftedCounts : Craft(o, n)
  \/ \E id \in OrderIDs : CallResolveByteOrder(id)

RaceNext ==
  \/ RaceEnvironment
  \/ \E table \in PolicyTables : OverwriteMaxGeometryElements(table)
  \/ \E op \in {"ReadFlatCoords1", "ReadFlatCoords2"}, s \in Strides : Begin(op, s)
  \/ StepL129 \/ StepL132 \/ StepL133 \/ StepL137
  \/ StepL113 \/ StepL116 \/ StepL117 \/ StepL119

SpecRace == Init /\ [][RaceNext]_vars

(* ======================= layout of a byte stream ======================= *)

(* What a stream declares, read off the binary layout alone: a Level-1     *)
(* block is a uint32 count followed by count*stride scalars, a Level-2     *)
(* block a uint32 outer count followed by that many Level-1 blocks.        *)

\* a > b as unsigned 32-bit numbers.
Exceeds(a, b) == \/ a.hi > b.hi
                 \/ a.hi = b.hi /\ a.lo > b.lo

\* The count field at byte offset pos of input.
CountAt(input, byteOrder, pos) == Uint32(byteOrder, SubSeq(input, pos + 1, pos + 4))

RECURSIVE Blocks(_, _, _, _, _, _, _, _)
\* Walk at most left Level-1 blocks from offset pos, stopping before the first one that is
\* cut short or declares more than limit: the counts and payload bytes of those passed,
\* the offset reached, and whether all left blocks were passed.
Blocks(input, byteOrder, stride, limit, pos, left, counts, payload) ==
  IF left = 0
  THEN [pos |-> pos, counts |-> counts, payload |-> payload, whole |-> TRUE]
  ELSE IF Len(input) < pos + 4
       THEN [pos |-> pos, counts |-> counts, payload |-> payload, whole |-> FALSE]
       ELSE LET n == CountAt(input, byteOrder, pos)
                size == 8 * (ToInt(n) * stride)
            IN  IF Exceeds(n, limit) \/ Len(input) < pos + 4 + size
                THEN [pos |-> pos, counts |-> counts, payload |-> payload, whole |-> FALSE]
                ELSE Blocks(input, byteOrder, stride, limit, pos + 4 + size, left - 1,
                            Append(counts, ToInt(n)),
                            payload \o SubSeq(input, pos + 5, pos + 4 + size))

\* The Level-1 blocks of the Level-2 stream the latest read was given.
InnerBlocks ==
  Blocks(last.input, last.byteOrder, last.stride, Limit(last.table, 1), 4,
         ToInt(CountAt(last.input, last.byteOrder, 0)), <<>>, <<>>)

RECURSIVE Sum(_, _)
Sum(counts, k) == IF k = 0 THEN 0 ELSE counts[k] + Sum(counts, k - 1)

From(input, pos) == SubSeq(input, pos + 1, Len(input))

Read2 == last.op = "ReadFlatCoords2"
HasCount == Len(last.input) >= 4
OuterWithinLimit == ~ Exceeds(CountAt(last.input, last.byteOrder, 0), Limit(last.table, 2))

(* =============================== claims ================================ *)

\* C1: a Level-1 read of a stream whose count prefix n exceeds limit[1] fails with
\* ErrGeometryTooLarge{Level: 1, N: n, Limit: limit[1]}, returns no FlatCoords and leaves
\* the stream right after the 4 count bytes; for n <= limit[1] the error is never
\* ErrGeometryTooLarge.
C1_Level1Bounds ==
  (last.op = "ReadFlatCoords1" /\ HasCount) =>
    LET n == CountAt(last.input, last.byteOrder, 0)
        limit == Limit(last.table, 1)
    IN  IF Exceeds(n, limit)
        THEN /\ last.err = ErrGeometryTooLarge(1, n, limit)
             /\ last.flatCoords = NilSlice
             /\ stream = From(last.input, 4)
        ELSE last.err.kind # "ErrGeometryTooLarge"

\* The spec's example: count 1,048,577 against the default limit 1,048,576.
C1_Witness ==
  /\ last.op = "ReadFlatCoords1"
  /\ last.table = DefaultMaxGeometryElements
  /\ last.err = ErrGeometryTooLarge(1, U32(16, 1), U32(16, 0))
  /\ Len(last.input) = 4 /\ stream = <<>>

\* C2: a Level-2 read whose outer count n exceeds limit[2] fails with
\* ErrGeometryTooLarge{Level: 2, N: n, Limit: limit[2]} with the stream left right after the
\* outer count; and when the outer count is within limit[2], the first inner sequence that
\* is not read successfully, if its count exceeds limit[1], fails the whole read with the
\* Level-1 error carrying that count.
C2_Level2Bounds ==
  (Read2 /\ HasCount) =>
    LET n == CountAt(last.input, last.byteOrder, 0)
    IN  IF Exceeds(n, Limit(last.table, 2))
        THEN /\ last.err = ErrGeometryTooLarge(2, n, Limit(last.table, 2))
             /\ last.flatCoords = NilSlice /\ last.ends = NilSlice
             /\ stream = From(last.input, 4)
        ELSE LET b == InnerBlocks
             IN  (/\ ~ b.whole
                  /\ Len(last.input) >= b.pos + 4
                  /\ Exceeds(CountAt(last.input, last.byteOrder, b.pos), Limit(last.table, 1)))
                 => /\ last.err = ErrGeometryTooLarge(1, CountAt(last.input, last.byteOrder, b.pos),
                                                      Limit(last.table, 1))
                    /\ stream = From(last.input, b.pos + 4)

\* An outer count within limit[2], one inner sequence read, the next one over limit[1].
C2_Witness ==
  /\ Read2 /\ HasCount /\ OuterWithinLimit
  /\ Len(InnerBlocks.counts) >= 1
  /\ last.err.kind = "ErrGeometryTooLarge" /\ last.err.Level = 1

\* An outer count of 32,769 against the default limit 32,768.
C2_WitnessOuter ==
  /\ Read2
  /\ last.err = ErrGeometryTooLarge(2, U32(0, 32769), U32(0, 32768))
  /\ stream = <<>>

WroteThenRead(wr, rd) ==
  /\ produced.op = wr /\ produced.cut = 0
  /\ last.op = rd /\ last.offset = 0
  /\ last.byteOrder = produced.byteOrder /\ last.stride = produced.stride

\* C3 as stated: WriteFlatCoords1 into an empty stream, then ReadFlatCoords1 with the same
\* byte order and stride, succeeds for any FlatCoords of whole coordinates, returns it
\* element for element and consumes the stream.
C3_RoundTrip1_AsStated ==
  WroteThenRead("WriteFlatCoords1", "ReadFlatCoords1") =>
    /\ last.err = NoErr
    /\ last.flatCoords.data = produced.coords
    /\ stream = <<>>

\* C3: the same, for a FlatCoords whose number of coordinates len/stride is at most limit[1].
C3_RoundTrip1 ==
  (/\ WroteThenRead("WriteFlatCoords1", "ReadFlatCoords1")
   /\ ~ Exceeds(FromInt(Len(produced.coords) \div produced.stride), Limit(last.table, 1)))
  => /\ last.err = NoErr
     /\ last.flatCoords.data = produced.coords
     /\ stream = <<>>

\* Two XYZ coordinates written and read back little-endian.
C3_Witness ==
  /\ WroteThenRead("WriteFlatCoords1", "ReadFlatCoords1")
  /\ produced.stride = 3 /\ Len(produced.coords) = 6 /\ produced.byteOrder = NDR
  /\ last.err = NoErr

\* The number of coordinates of each sub-array ends delimits.
RingCounts(ends, stride) ==
  [k \in 1..Len(ends) |-> (ends[k] - (IF k = 1 THEN 0 ELSE ends[k - 1])) \div stride]

\* C4 as stated: WriteFlatCoords2 then ReadFlatCoords2 with the same byte order and stride
\* reproduces FlatCoords and Ends for any partition.
C4_RoundTrip2_AsStated ==
  WroteThenRead("WriteFlatCoords2", "ReadFlatCoords2") =>
    /\ last.err = NoErr
    /\ last.flatCoords.data = produced.coords
    /\ last.ends.data = produced.ends

\* C4: the same, for a partition into at most limit[2] sub-arrays of whole coordinates, each
\* of at most limit[1] coordinates.
C4_RoundTrip2 ==
  (/\ WroteThenRead("WriteFlatCoords2", "ReadFlatCoords2")
   /\ ~ Exceeds(FromInt(Len(produced.ends)), Limit(last.table, 2))
   /\ \A k \in 1..Len(produced.ends) :
        ~ Exceeds(FromInt(RingCounts(produced.ends, produced.stride)[k]), Limit(last.table, 1)))
  => /\ last.err = NoErr
     /\ last.flatCoords.data = produced.coords
     /\ last.ends.data = produced.ends
     /\ stream = <<>>

\* Two rings of one XY coordinate each, written and read back.
C4_Witness ==
  /\ WroteThenRead("WriteFlatCoords2", "ReadFlatCoords2")
  /\ produced.stride = 2 /\ produced.ends = <<2, 4>>
  /\ last.err = NoErr

\* C5 as stated: after a successful Level-2 read Ends is strictly increasing and its last
\* element is len(FlatCoords).
C5_EndsInvariant_AsStated ==
  (Read2 /\ last.err = NoErr) =>
    LET e == last.ends.data
    IN  /\ \A i \in 1..(Len(e) - 1) : e[i] < e[i + 1]
        /\ Len(e) > 0 => e[Len(e)] = Len(last.flatCoords.data)

\* C5: after a successful Level-2 read Ends is non-decreasing, two neighbours being equal
\* exactly when the later inner sequence declares zero coordinates; when Ends is not empty
\* its last element is len(FlatCoords), and when it is empty so is FlatCoords.
C5_EndsInvariant ==
  (Read2 /\ last.err = NoErr) =>
    LET e == last.ends.data
        c == InnerBlocks.counts
    IN  /\ Len(c) = Len(e)
        /\ \A i \in 1..(Len(e) - 1) : /\ e[i] <= e[i + 1]
                                      /\ (e[i] = e[i + 1]) <=> (c[i + 1] = 0)
        /\ IF Len(e) > 0 THEN e[Len(e)] = Len(last.flatCoords.data)
                         ELSE last.flatCoords.data = <<>>

\* A successful read of two inner sequences, the second of them empty.
C5_Witness ==
  /\ Read2 /\ last.err = NoErr
  /\ Len(last.ends.data) = 2
  /\ last.ends.data[1] = last.ends.data[2] /\ last.ends.data[1] > 0

\* C6: a Level-2 read that fails returns nil FlatCoords and nil Ends; a failure of the outer
\* count read is that read's error, a failure of the bound check the Level-2 error, and a
\* failure in the loop the error of the Level-1 read at the first inner sequence that is cut
\* short or over limit[1].
C6_AllOrNothing ==
  (Read2 /\ last.err # NoErr) =>
    /\ last.flatCoords = NilSlice
    /\ last.ends = NilSlice
    /\ IF ~ HasCount
       THEN last.err = (IF last.input = <<>> THEN ErrEOF ELSE ErrUnexpectedEOF)
       ELSE IF ~ OuterWithinLimit
            THEN last.err.kind = "ErrGeometryTooLarge" /\ last.err.Level = 2
            ELSE /\ ~ InnerBlocks.whole
                 /\ last.err = ReadFlatCoords1(From(last.input, InnerBlocks.pos), last.byteOrder,
                                               last.stride, last.table).err

\* A read that fails at its second inner sequence, the first one having been read.
C6_Witness ==
  /\ Read2 /\ last.err # NoErr /\ HasCount /\ OuterWithinLimit
  /\ Len(InnerBlocks.counts) = 1 /\ InnerBlocks.counts[1] > 0
  /\ last.err \in {ErrEOF, ErrUnexpectedEOF}

\* C7: a successful Level-1 read with declared count n returns n*stride scalars; a successful
\* Level-2 read with declared outer count n returns n entries of Ends, entry i being stride
\* times the sum of the first i inner counts, and the inner payloads decoded in stream order.
C7_Sizes ==
  /\ (last.op = "ReadFlatCoords1" /\ last.err = NoErr) =>
       /\ Len(last.flatCoords.data) = ToInt(CountAt(last.input, last.byteOrder, 0)) * last.stride
       /\ Len(last.flatCoords.data) % last.stride = 0
  /\ (Read2 /\ last.err = NoErr) =>
       LET b == InnerBlocks
       IN  /\ b.whole
           /\ Len(last.ends.data) = ToInt(CountAt(last.input, last.byteOrder, 0))
           /\ \A i \in 1..Len(last.ends.data) :
                last.ends.data[i] = last.stride * Sum(b.counts, i)
           /\ last.flatCoords.data =
                [j \in 1..(Len(b.payload) \div 8) |->
                   Float64(last.byteOrder, SubSeq(b.payload, 8 * (j - 1) + 1, 8 * j))]

\* A successful Level-2 read of two inner sequences of different sizes at stride 2.
C7_Witness ==
  /\ Read2 /\ last.err = NoErr /\ last.stride = 2
  /\ last.ends.data = <<2, 4>>
  /\ Len(last.flatCoords.data) = 4

\* C8: every step that resolves an order byte yields big-endian for 0, little-endian for 1
\* and ErrUnknownByteOrder carrying the byte for any other, and changes nothing else.
C8_ByteOrderResolution ==
  [][(resolved' # resolved /\ resolved' # Unresolved) =>
       /\ resolved'.id = 0 =>
            /\ resolved'.err = NoErr
            /\ resolved'.byteOrder = "BigEndian"
            /\ PutUint32(resolved'.byteOrder, U32(258, 772)) = <<1, 2, 3, 4>>
       /\ resolved'.id = 1 =>
            /\ resolved'.err = NoErr
            /\ resolved'.byteOrder = "LittleEndian"
            /\ PutUint32(resolved'.byteOrder, U32(258, 772)) = <<4, 3, 2, 1>>
       /\ resolved'.id \notin {0, 1} =>
            /\ resolved'.err.kind = "ErrUnknownByteOrder"
            /\ ToInt(resolved'.err.N) = resolved'.id
            /\ resolved'.byteOrder \notin ByteOrders
       /\ UNCHANGED << MaxGeometryElements, stream, produced, last, pc, frame >>]_vars

\* The order byte 99 was refused, with a written stream waiting.
C8_Witness ==
  /\ resolved.id = 99 /\ resolved.err.kind = "ErrUnknownByteOrder"
  /\ ToInt(resolved.err.N) = 99
  /\ produced.op = "WriteFlatCoords1"

\* C9: no read and no write, failing or not, changes an entry of MaxGeometryElements; a
\* read changes only the stream and what it returns, a write only the stream.
C9_PolicyFrame ==
  [][/\ (last' # last /\ last'.op # "none") =>
          /\ MaxGeometryElements' = MaxGeometryElements
          /\ last'.table = MaxGeometryElements
          /\ UNCHANGED << produced, resolved >>
     /\ (produced.op = "none" /\ produced'.op \in {"WriteFlatCoords0", "WriteFlatCoords1",
                                                   "WriteFlatCoords2"}) =>
          /\ MaxGeometryElements' = MaxGeometryElements
          /\ UNCHANGED << resolved, last >>]_vars

\* A tightened table still in place after a read failed against it.
C9_Witness ==
  /\ last.op = "ReadFlatCoords1" /\ last.err.kind = "ErrGeometryTooLarge"
  /\ MaxGeometryElements = last.table
  /\ MaxGeometryElements # DefaultMaxGeometryElements

\* C10: with another goroutine free to assign the table at any moment, every
\* ErrGeometryTooLarge a read returns has N > Limit.
C10_ConsistentError ==
  last.err.kind = "ErrGeometryTooLarge" => Exceeds(last.err.N, last.err.Limit)

====
